---------------------------- MODULE Spec2Model ----------------------------
(***************************************************************************)
(* Model of the Blender add-on BatchExportMeshes.py: the operator          *)
(* BatchExport.execute and the routine batch_export_meshes.                *)
(*                                                                         *)
(* Text values (paths, names, prefixes) are sequences of one-character     *)
(* strings, so that rfind, slicing, clean_name and os.path.join are        *)
(* computed character by character as the Python code computes them.       *)
(* os.path is modelled with its POSIX semantics (separator "/").           *)
(***************************************************************************)
EXTENDS Integers, Sequences, FiniteSets, TLC

(***************************************************************************)
(* Bounds and the fixtures the inputs are drawn from.                      *)
(***************************************************************************)
NObj == 2

Objs == 1..NObj

\* view_layer.objects.active when no object is active
None == 0

OBJECT_TYPES == {"MESH", "ARMATURE", "LIGHT"}

Origin == <<0, 0, 0>>

LocPool == {Origin, <<1, 2, 3>>}

\* object names of the scene (unique in a Blender file)
NameList == << <<"A", ".", "1">>, <<"A", "_", "1">>, <<"B">> >>

\* values of the operator's filepath property
FilepathPool ==
    { <<"/", "o", "\\", "f">>,         \* /o\f    directory + backslash + file
      <<"/", "o", "/", "f">>,          \* /o/f    directory + slash + file
      <<"/", "n", "\\", "f">> }        \* /n\f    no such directory

\* directories that exist on the file system, besides the root and ancestors
ExistingDirs == { <<"/", "o">>, <<"/", "p">> }

\* values of bpy.data.filepath: unsaved file, or /p/s
BlendPaths == { << >>, <<"/", "p", "/", "s">> }

PrefixPool == { << >>, <<"S", "_">> }

(***************************************************************************)
(* Pure helpers: Python str methods, os.path, bpy.path.clean_name.         *)
(***************************************************************************)
AlnumChars ==
    {"a","b","c","d","e","f","g","h","i","j","k","l","m","n","o","p","q","r",
     "s","t","u","v","w","x","y","z",
     "A","B","C","D","E","F","G","H","I","J","K","L","M","N","O","P","Q","R",
     "S","T","U","V","W","X","Y","Z",
     "0","1","2","3","4","5","6","7","8","9"}

\* str.rfind(c): Python index of the last occurrence of c, -1 if none
rfind(s, c) ==
    LET hits == {i \in 1..Len(s) : s[i] = c}
    IN IF hits = {} THEN -1
       ELSE (CHOOSE i \in hits : \A j \in hits : j <= i) - 1

\* s[:n] for 0 <= n
Slice(s, n) == SubSeq(s, 1, IF n < Len(s) THEN n ELSE Len(s))

\* s.rstrip(c)
RECURSIVE rstrip(_, _)
rstrip(s, c) ==
    IF s # << >> /\ s[Len(s)] = c THEN rstrip(SubSeq(s, 1, Len(s) - 1), c) ELSE s

\* posixpath.dirname
os_path_dirname(p) ==
    LET i == rfind(p, "/") + 1
        head == Slice(p, i)
    IN IF head # << >> /\ (\E k \in 1..Len(head) : head[k] # "/")
       THEN rstrip(head, "/")
       ELSE head

\* posixpath.join(a, b)
os_path_join(a, b) ==
    IF b # << >> /\ b[1] = "/" THEN b
    ELSE IF a = << >> \/ a[Len(a)] = "/" THEN a \o b
    ELSE a \o <<"/">> \o b

\* the components of a path: the texts between its "/" separators
RECURSIVE SplitPath(_)
SplitPath(p) ==
    IF p = << >> THEN << << >> >>
    ELSE LET rest == SplitPath(Tail(p))
         IN IF Head(p) = "/" THEN << << >> >> \o rest
            ELSE << <<Head(p)>> \o Head(rest) >> \o Tail(rest)

\* the directories of the file system as component lists: the root << >>,
\* every directory of ExistingDirs and every ancestor of one
DirTree ==
    UNION {LET comps == SelectSeq(SplitPath(d), LAMBDA c : c # << >>)
           IN {SubSeq(comps, 1, k) : k \in 0..Len(comps)} : d \in ExistingDirs}
      \cup {<< >>}

\* the working directory a relative path is resolved against: the root
CurrentDir == << >>

\* path resolution from directory cur: "" and "." stay, ".." goes to the
\* parent (the root is its own parent), a name must be an existing directory
RECURSIVE WalkIsDir(_, _)
WalkIsDir(cur, comps) ==
    IF comps = << >> THEN TRUE
    ELSE LET c == Head(comps)
         IN IF c = << >> \/ c = <<".">> THEN WalkIsDir(cur, Tail(comps))
            ELSE IF c = <<".", ".">>
                 THEN WalkIsDir(IF cur = << >> THEN cur
                                ELSE SubSeq(cur, 1, Len(cur) - 1), Tail(comps))
            ELSE /\ Append(cur, c) \in DirTree
                 /\ WalkIsDir(Append(cur, c), Tail(comps))

\* os.path.isdir against the file system fixture: the empty path is no
\* directory; any other path is resolved component by component
os_path_isdir(p) ==
    /\ p # << >>
    /\ WalkIsDir(IF p[1] = "/" THEN << >> ELSE CurrentDir, SplitPath(p))

\* bpy.path.clean_name: every character that is not A-Z, a-z, 0-9 becomes "_"
clean_name(name) ==
    [i \in 1..Len(name) |-> IF name[i] \in AlnumChars THEN name[i] ELSE "_"]

\* bpy.context.selected_objects: the selected objects, in scene order
selected_objects(sel) ==
    SelectSeq([i \in 1..NObj |-> i], LAMBDA o : o \in sel)

Range(s) == {s[i] : i \in 1..Len(s)}

(***************************************************************************)
(* State.                                                                  *)
(***************************************************************************)
VARIABLES
    obj_name,        \* bpy.data.objects: object -> name
    obj_type,        \* object -> type
    location,        \* object -> location vector
    selected,        \* set of objects whose select flag is set
    active,          \* view_layer.objects.active
    blend_filepath,  \* bpy.data.filepath
    files,           \* paths written by the host exporters
    exports,         \* the exporter calls made, in order
    self,            \* the BatchExport operator's properties
    exec_directory,  \* local `directory` of BatchExport.execute
    reports,         \* self.report calls
    result,          \* what execute handed back to the host
    caller,          \* who called batch_export_meshes
    bem_calls,       \* number of calls of batch_export_meshes
    args,            \* parameters of batch_export_meshes
    basedir,         \* locals of batch_export_meshes
    obj_active,
    selection,
    idx,             \* position of the for loop in `selection`
    saved_location,
    pc,              \* position of the control flow
    pre_selected,    \* scene at the moment of the invocation
    pre_active,
    pre_location

sceneVars == <<obj_name, obj_type, location, selected, active, blend_filepath>>

preVars == <<pre_selected, pre_active, pre_location>>

execVars == <<self, exec_directory, reports, result>>

localVars == <<basedir, obj_active, selection, idx, saved_location>>

vars == <<obj_name, obj_type, location, selected, active, blend_filepath,
          files, exports, self, exec_directory, reports, result, caller,
          bem_calls, args, basedir, obj_active, selection, idx,
          saved_location, pc, pre_selected, pre_active, pre_location>>

\* the property defaults of class BatchExport
DefaultProps ==
    [filepath |-> << >>, freeze_locations |-> TRUE, file_type |-> "FBX",
     mesh_name_prefix |-> <<"S", "M", "_">>]

FILE_TYPES == {"FBX", "GLTF", "OBJ", "DAE"}

\* names are assigned in NameList order, which keeps them unique
SceneNames ==
    {[o \in Objs |-> NameList[f[o]]] :
        f \in {g \in [Objs -> 1..Len(NameList)] :
                  \A i, j \in Objs : i < j => g[i] < g[j]}}

Init ==
    /\ obj_name \in SceneNames
    /\ obj_type \in [Objs -> OBJECT_TYPES]
    /\ location \in [Objs -> LocPool]
    /\ selected \in SUBSET Objs
    /\ active \in Objs \cup {None}
    /\ blend_filepath \in BlendPaths
    /\ files = {}
    /\ exports = << >>
    /\ self = DefaultProps
    /\ exec_directory = << >>
    /\ reports = << >>
    /\ result = "none"
    /\ caller = "none"
    /\ bem_calls = 0
    /\ args = [directory |-> << >>, freeze_locations |-> TRUE,
               file_type |-> "FBX", mesh_name_prefix |-> << >>]
    /\ basedir = << >>
    /\ obj_active = None
    /\ selection = << >>
    /\ idx = 0
    /\ saved_location = Origin
    /\ pc = "idle"
    /\ pre_selected = selected
    /\ pre_active = active
    /\ pre_location = location

(***************************************************************************)
(* BatchExport.execute                                                     *)
(***************************************************************************)
\* lines 63-68: removes the file part from the full filepath
StripFilePart(filepath) ==
    LET last_slash == rfind(filepath, "\\")
    IN IF last_slash # -1 THEN Slice(filepath, last_slash) ELSE filepath

\* line 70
DirectoryIsValid_Unchecked(directory) == TRUE

DirectoryIsValid(directory) == os_path_isdir(directory)

\* line 73: the arguments handed to batch_export_meshes
CallArgs(directory, props) ==
    [directory |-> directory,
     freeze_locations |-> props.freeze_locations,
     file_type |-> props.file_type,
     mesh_name_prefix |-> props.mesh_name_prefix]

UserProps ==
    [filepath : FilepathPool, freeze_locations : BOOLEAN,
     file_type : FILE_TYPES, mesh_name_prefix : PrefixPool]

\* execute, up to the call of batch_export_meshes (lines 63-73, else branch)
ExecuteCall ==
    /\ pc = "idle"
    /\ \E props \in UserProps :
         LET directory == StripFilePart(props.filepath)
         IN /\ DirectoryIsValid(directory)
            /\ self' = props
            /\ exec_directory' = directory
            /\ args' = CallArgs(directory, props)
    /\ caller' = "execute"
    /\ bem_calls' = bem_calls + 1
    /\ pc' = "bem_entry"
    /\ pre_selected' = selected
    /\ pre_active' = active
    /\ pre_location' = location
    /\ UNCHANGED <<sceneVars, files, exports, reports, result, localVars>>

\* execute with a path that is no directory (lines 63-71 and 74)
ExecuteWarn ==
    /\ pc = "idle"
    /\ \E props \in UserProps :
         LET directory == StripFilePart(props.filepath)
         IN /\ ~DirectoryIsValid(directory)
            /\ self' = props
            /\ exec_directory' = directory
    /\ reports' = Append(reports, "WARNING")
    /\ caller' = "execute"
    /\ result' = "FINISHED"
    /\ pc' = "done"
    /\ pre_selected' = selected
    /\ pre_active' = active
    /\ pre_location' = location
    /\ UNCHANGED <<sceneVars, files, exports, bem_calls, args, localVars>>

\* line 74, after batch_export_meshes has returned
ExecuteReturn ==
    /\ pc = "returned"
    /\ caller = "execute"
    /\ result' = "FINISHED"
    /\ pc' = "done"
    /\ UNCHANGED <<sceneVars, preVars, files, exports, self, exec_directory,
                   reports, caller, bem_calls, args, localVars>>

(***************************************************************************)
(* batch_export_meshes                                                     *)
(***************************************************************************)
\* a call of the module-level function with no directory (line 78)
DirectArgs ==
    [directory : {<< >>}, freeze_locations : BOOLEAN,
     file_type : {"FBX"}, mesh_name_prefix : {<< >>}]

DirectCall ==
    /\ pc = "idle"
    /\ \E a \in DirectArgs : args' = a
    /\ caller' = "direct"
    /\ bem_calls' = bem_calls + 1
    /\ pc' = "bem_entry"
    /\ pre_selected' = selected
    /\ pre_active' = active
    /\ pre_location' = location
    /\ UNCHANGED <<sceneVars, files, exports, execVars, localVars>>

\* lines 81-85
ResolveBasedir(directory, blend) ==
    IF directory = << >> THEN os_path_dirname(blend) ELSE directory

\* lines 81-88, basedir found
BasedirOk ==
    /\ pc = "bem_entry"
    /\ basedir' = ResolveBasedir(args.directory, blend_filepath)
    /\ basedir' # << >>
    /\ pc' = "snapshot"
    /\ UNCHANGED <<sceneVars, preVars, files, exports, execVars, caller,
                   bem_calls, args, obj_active, selection, idx, saved_location>>

\* lines 81-88, raise Exception("Blend file is not saved")
BasedirRaise ==
    /\ pc = "bem_entry"
    /\ basedir' = ResolveBasedir(args.directory, blend_filepath)
    /\ basedir' = << >>
    /\ pc' = "raised"
    /\ UNCHANGED <<sceneVars, preVars, files, exports, execVars, caller,
                   bem_calls, args, obj_active, selection, idx, saved_location>>

\* line 95: bpy.ops.object.select_all(action='DESELECT')
DeselectAll_Forgotten(sel) == sel

DeselectAll(sel) == {}

\* lines 90-95: snapshot the active object and the selection, deselect all
Snapshot ==
    /\ pc = "snapshot"
    /\ obj_active' = active
    /\ selection' = selected_objects(selected)
    /\ selected' = DeselectAll(selected)
    /\ idx' = 1
    /\ pc' = "loop"
    /\ UNCHANGED <<obj_name, obj_type, location, active, blend_filepath,
                   preVars, files, exports, execVars, caller, bem_calls, args,
                   basedir, saved_location>>

\* line 99
IsEligible_MeshOnly(type) == type = "MESH"

IsEligible(type) == type = "MESH" \/ type = "ARMATURE"

\* lines 97-100: continue
LoopSkip ==
    /\ pc = "loop"
    /\ idx <= Len(selection)
    /\ ~IsEligible(obj_type[selection[idx]])
    /\ idx' = idx + 1
    /\ UNCHANGED <<sceneVars, preVars, files, exports, execVars, caller,
                   bem_calls, args, basedir, obj_active, selection,
                   saved_location, pc>>

\* lines 108-109
FrozenLocation_Never(freeze_locations, loc) == loc

FrozenLocation_Always(freeze_locations, loc) == Origin

FrozenLocation(freeze_locations, loc) ==
    IF freeze_locations THEN Origin ELSE loc

\* lines 97-112: select the object, save and freeze its location, make it active
Prepare ==
    /\ pc = "loop"
    /\ idx <= Len(selection)
    /\ LET obj == selection[idx]
       IN /\ IsEligible(obj_type[obj])
          /\ selected' = selected \cup {obj}
          /\ saved_location' = location[obj]
          /\ location' = [location EXCEPT
                            ![obj] = FrozenLocation(args.freeze_locations, @)]
          /\ active' = obj
    /\ pc' = "export"
    /\ UNCHANGED <<obj_name, obj_type, blend_filepath, preVars, files, exports,
                   execVars, caller, bem_calls, args, basedir, obj_active,
                   selection, idx>>

\* lines 114-118
ExportName(mesh_name_prefix, name) ==
    LET cleaned == clean_name(name)
    IN IF mesh_name_prefix # << >> THEN mesh_name_prefix \o cleaned ELSE cleaned

\* lines 123-131 with the OBJ case writing the FBX extension
ExporterCalls_ObjAsFbx(file_type, fn) ==
    CASE file_type = "FBX" ->
           <<[exporter |-> "export_scene.fbx",
              filepath |-> fn \o <<".", "f", "b", "x">>,
              use_selection |-> TRUE, export_format |-> "default"]>>
      [] file_type = "OBJ" ->
           <<[exporter |-> "export_scene.obj",
              filepath |-> fn \o <<".", "f", "b", "x">>,
              use_selection |-> TRUE, export_format |-> "default"]>>
      [] file_type = "GLTF" ->
           <<[exporter |-> "export_scene.gltf",
              filepath |-> fn \o <<".", "g", "l", "t", "f">>,
              use_selection |-> TRUE, export_format |-> "GLTF_SEPARATE"]>>
      [] file_type = "DAE" ->
           <<[exporter |-> "export_scene.fbx",
              filepath |-> fn \o <<".", "d", "a", "e">>,
              use_selection |-> TRUE, export_format |-> "default"]>>
      [] OTHER -> << >>

\* lines 123-131: the exporter calls the match statement makes for a file type
ExporterCalls(file_type, fn) ==
    CASE file_type = "FBX" ->
           <<[exporter |-> "export_scene.fbx",
              filepath |-> fn \o <<".", "f", "b", "x">>,
              use_selection |-> TRUE, export_format |-> "default"]>>
      [] file_type = "OBJ" ->
           <<[exporter |-> "export_scene.obj",
              filepath |-> fn \o <<".", "o", "b", "j">>,
              use_selection |-> TRUE, export_format |-> "default"]>>
      [] file_type = "GLTF" ->
           <<[exporter |-> "export_scene.gltf",
              filepath |-> fn \o <<".", "g", "l", "t", "f">>,
              use_selection |-> TRUE, export_format |-> "GLTF_SEPARATE"]>>
      [] file_type = "DAE" ->
           <<[exporter |-> "export_scene.fbx",
              filepath |-> fn \o <<".", "d", "a", "e">>,
              use_selection |-> TRUE, export_format |-> "default"]>>
      [] OTHER -> << >>

\* the exporter calls of lines 114-131 for the current object, each logged
\* with the scene state the exporter sees
CurrentCalls ==
    LET obj == selection[idx]
        name == ExportName(args.mesh_name_prefix, obj_name[obj])
        fn == os_path_join(basedir, name)
        calls == ExporterCalls(args.file_type, fn)
    IN [i \in 1..Len(calls) |->
          [call |-> calls[i], obj |-> obj, selected |-> selected,
           active |-> active, location |-> location[obj]]]

\* lines 114-131, the host exporter writes the file
Export ==
    /\ pc = "export"
    /\ exports' = exports \o CurrentCalls
    /\ files' = files \cup {CurrentCalls[i].call.filepath :
                              i \in 1..Len(CurrentCalls)}
    /\ pc' = "restore"
    /\ UNCHANGED <<sceneVars, preVars, execVars, caller, bem_calls, args,
                   localVars>>

\* lines 114-131, the host exporter raises; nothing catches it
ExportRaise ==
    /\ pc = "export"
    /\ CurrentCalls # << >>
    /\ exports' = exports \o CurrentCalls
    /\ pc' = "raised"
    /\ UNCHANGED <<sceneVars, preVars, files, execVars, caller, bem_calls,
                   args, localVars>>

\* lines 133-136: deselect, put the location back
Restore ==
    /\ pc = "restore"
    /\ LET obj == selection[idx]
       IN /\ selected' = selected \ {obj}
          /\ location' = [location EXCEPT ![obj] = saved_location]
    /\ idx' = idx + 1
    /\ pc' = "loop"
    /\ UNCHANGED <<obj_name, obj_type, active, blend_filepath, preVars, files,
                   exports, execVars, caller, bem_calls, args, basedir,
                   obj_active, selection, saved_location>>

\* lines 141-142: for obj in selection: obj.select_set(True)
Reselect_ExportedOnly(sel, objs) ==
    sel \cup {objs[i] : i \in {j \in 1..Len(objs) : obj_type[objs[j]] \in {"MESH", "ARMATURE"}}}

Reselect(sel, objs) == sel \cup Range(objs)

\* lines 139-142: restore the active object and the selection
Finish ==
    /\ pc = "loop"
    /\ idx > Len(selection)
    /\ active' = obj_active
    /\ selected' = Reselect(selected, selection)
    /\ pc' = "returned"
    /\ UNCHANGED <<obj_name, obj_type, location, blend_filepath, preVars,
                   files, exports, execVars, caller, bem_calls, args,
                   localVars>>

Next ==
    \/ ExecuteCall
    \/ ExecuteWarn
    \/ ExecuteReturn
    \/ DirectCall
    \/ BasedirOk
    \/ BasedirRaise
    \/ Snapshot
    \/ LoopSkip
    \/ Prepare
    \/ Export
    \/ ExportRaise
    \/ Restore
    \/ Finish

Spec == Init /\ [][Next]_vars

(***************************************************************************)
(* Properties.                                                             *)
(***************************************************************************)
\* batch_export_meshes was called and returned normally
Completed == bem_calls = 1 /\ pc \in {"returned", "done"}

\* the selection list at the moment of the invocation, in scene order
PreSelection == selected_objects(pre_selected)

\* C1: when batch_export_meshes runs to completion, the selected set and
\* the active object are exactly those that held when it was invoked.
C1_SelectionRestored ==
    Completed => selected = pre_selected /\ active = pre_active

C1_Witness ==
    /\ pc = "returned"
    /\ exports # << >>
    /\ \E o \in pre_selected : obj_type[o] = "LIGHT"
    /\ pre_active \notin pre_selected
    /\ active = pre_active

\* C2: with freeze-locations enabled, an eligible object is at the origin
\* in the state in which the exporter is invoked for it (also as seen by
\* every logged exporter call), and back at its pre-invocation location as
\* soon as its export step has finished, before the next object is handled.
C2_FrozenDuringExport ==
    args.freeze_locations =>
        /\ pc = "export" => location[selection[idx]] = Origin
        /\ \A i \in 1..Len(exports) : exports[i].location = Origin
        /\ pc = "loop" =>
             \A j \in 1..(idx - 1) :
                location[selection[j]] = pre_location[selection[j]]

C2_Witness ==
    /\ args.freeze_locations
    /\ pc = "loop"
    /\ idx > 1
    /\ obj_type[selection[idx - 1]] \in {"MESH", "ARMATURE"}
    /\ pre_location[selection[idx - 1]] # Origin
    /\ exports # << >>
    /\ exports[Len(exports)].obj = selection[idx - 1]
    /\ exports[Len(exports)].location = Origin
    /\ location[selection[idx - 1]] = pre_location[selection[idx - 1]]

\* C3: with freeze-locations disabled, every object's location equals its
\* location at the invocation in every state of the invocation, and every
\* exporter call sees the object at that location.
C3_NeverMovedWhenNotFrozen ==
    (bem_calls = 1 /\ ~args.freeze_locations) =>
        /\ location = pre_location
        /\ \A i \in 1..Len(exports) :
              exports[i].location = pre_location[exports[i].obj]

C3_Witness ==
    /\ bem_calls = 1
    /\ ~args.freeze_locations
    /\ pc = "restore"
    /\ location[selection[idx]] # Origin
    /\ exports # << >>

\* C4: exporters are only ever invoked for MESH or ARMATURE objects, and in
\* a completed invocation the exported objects are exactly the MESH/ARMATURE
\* subsequence of the original selection, in order, each once; a selection
\* without such objects writes no file.
C4_ExportsEligibleInOrder ==
    LET eligible(o) == obj_type[o] \in {"MESH", "ARMATURE"}
    IN /\ \A i \in 1..Len(exports) : eligible(exports[i].obj)
       /\ Completed =>
            /\ [i \in 1..Len(exports) |-> exports[i].obj]
                 = SelectSeq(PreSelection, eligible)
            /\ (\A o \in pre_selected : ~eligible(o)) => files = {}

C4_Witness ==
    /\ Completed
    /\ \E o \in pre_selected : obj_type[o] = "ARMATURE"
    /\ \E o \in pre_selected : obj_type[o] = "LIGHT"
    /\ Len(exports) = 1

\* C5: after a completed invocation the number of distinct files written
\* equals the number of eligible objects of the selection.
C5_OneFilePerEligible ==
    Completed =>
        Cardinality(files)
          = Cardinality({o \in pre_selected : obj_type[o] \in {"MESH", "ARMATURE"}})

\* C6: every exporter call is the stated function of (format, directory,
\* prefix, object name): path = join(directory, prefix + sanitize(name) + ext),
\* FBX -> fbx exporter ".fbx", OBJ -> obj exporter ".obj", GLTF -> gltf
\* exporter ".gltf" in separate-files mode, DAE -> fbx exporter ".dae", and
\* every call is selection-only.
C6_ExporterCallByFormat ==
    \A i \in 1..Len(exports) :
        LET c == exports[i].call
            ft == args.file_type
            dir == IF args.directory # << >> THEN args.directory
                   ELSE os_path_dirname(blend_filepath)
            ext == CASE ft = "FBX" -> <<".", "f", "b", "x">>
                     [] ft = "OBJ" -> <<".", "o", "b", "j">>
                     [] ft = "GLTF" -> <<".", "g", "l", "t", "f">>
                     [] ft = "DAE" -> <<".", "d", "a", "e">>
            sanitized == clean_name(obj_name[exports[i].obj])
            filename == IF args.mesh_name_prefix = << >>
                        THEN sanitized \o ext
                        ELSE args.mesh_name_prefix \o sanitized \o ext
        IN /\ c.filepath = os_path_join(dir, filename)
           /\ c.exporter = CASE ft = "FBX" -> "export_scene.fbx"
                             [] ft = "OBJ" -> "export_scene.obj"
                             [] ft = "GLTF" -> "export_scene.gltf"
                             [] ft = "DAE" -> "export_scene.fbx"
           /\ c.export_format = (IF ft = "GLTF" THEN "GLTF_SEPARATE" ELSE "default")
           /\ c.use_selection

C6_Witness ==
    /\ Len(exports) = 1
    /\ args.file_type = "DAE"
    /\ args.mesh_name_prefix = <<"S", "_">>
    /\ exports[1].call.exporter = "export_scene.fbx"
    /\ exports[1].call.filepath
         = <<"/", "o", "/", "S", "_", "A", "_", "1", ".", "d", "a", "e">>
    /\ obj_name[exports[1].obj] = <<"A", ".", "1">>

\* C7: for a user-selected path <dir>/<filename> whose <dir> is an existing
\* directory, the export directory execute obtains is <dir>.
C7_StripsTrailingFilename ==
    (/\ caller = "execute"
     /\ ~os_path_isdir(self.filepath)
     /\ os_path_isdir(os_path_dirname(self.filepath)))
        => exec_directory = os_path_dirname(self.filepath)

\* C8: when the directory execute obtains is not an existing directory the
\* command reports one WARNING, never calls batch_export_meshes, changes
\* nothing in the scene and ends FINISHED; when it is valid,
\* batch_export_meshes is called exactly once with (directory,
\* freeze_locations, file_type, mesh_name_prefix).
C8_InvalidDirectoryWarns ==
    caller = "execute" =>
        IF os_path_isdir(exec_directory)
        THEN /\ bem_calls = 1
             /\ reports = << >>
             /\ args = [directory |-> exec_directory,
                        freeze_locations |-> self.freeze_locations,
                        file_type |-> self.file_type,
                        mesh_name_prefix |-> self.mesh_name_prefix]
        ELSE /\ reports = <<"WARNING">>
             /\ bem_calls = 0
             /\ exports = << >>
             /\ files = {}
             /\ selected = pre_selected
             /\ active = pre_active
             /\ location = pre_location
             /\ pc = "done"
             /\ result = "FINISHED"

C8_Witness ==
    /\ caller = "execute"
    /\ ~os_path_isdir(exec_directory)
    /\ exec_directory = <<"/", "n">>
    /\ reports = <<"WARNING">>
    /\ result = "FINISHED"
    /\ \E o \in selected : obj_type[o] = "MESH" /\ location[o] # Origin

\* C9: whenever batch_export_meshes hands control back to the host, by a
\* normal return or by an exception, the selected set, the active object
\* and every location equal their values at the invocation.
C9_RestoredOnEveryExit ==
    (bem_calls = 1 /\ pc \in {"returned", "raised", "done"}) =>
        /\ selected = pre_selected
        /\ active = pre_active
        /\ location = pre_location

\* C10: in every state in which an exporter is invoked for an object, that
\* object is the only selected object and is the active object, and the
\* call is a selection-only export.
C10_ExportedObjectAlone ==
    /\ pc = "export" =>
         selected = {selection[idx]} /\ active = selection[idx]
    /\ \A i \in 1..Len(exports) :
         /\ exports[i].selected = {exports[i].obj}
         /\ exports[i].active = exports[i].obj
         /\ exports[i].call.use_selection

C10_Witness ==
    /\ pc = "export"
    /\ idx = 2
    /\ Len(exports) = 1
    /\ Cardinality(pre_selected) >= 2
    /\ pre_active # selection[idx]
    /\ selected = {selection[idx]}

=============================================================================
